---- MODULE Spec2Model ----
(***************************************************************************)
(* Favorite-overlap recommendation engine and weekly digest scheduler of   *)
(* the book-favoriting application (books/views.py, books/models.py,       *)
(* books/management/commands/resubscribe_recommendation_emails.py).        *)
(*                                                                         *)
(* Time is counted in whole days.  A request handler is one action; the    *)
(* digest pass is additionally available step by step (Pass* actions) for  *)
(* the interleavings of concurrent requests.                               *)
(***************************************************************************)
EXTENDS Integers, Sequences, FiniteSets, TLC

VARIABLES
    now,            \* timezone.now(), in days
    account,        \* auth User table: id -> [status, email, is_active]
    guest_user_id,  \* request.session['guest_user_id'] of the anonymous browser session (0: absent)
    favs,           \* UserFavoriteBook table: set of rows [user, book, created_at, explanation]
    prefs,          \* UserEmailPreferences table: user id -> row
    resp,           \* response of the request handled last
    mail,           \* the dispatches (try blocks entered) of the step taken last
    evaluated,      \* the users whose loop iteration the step taken last has run
    last_dispatch,  \* history: per user, the time of the last digest delivered to them
    worker          \* the requests in flight on the worker processes, handled step by step

vars == <<now, account, guest_user_id, favs, prefs, resp, mail, evaluated, last_dispatch, worker>>

----------------------------------------------------------------------------
(* Bounds *)

NUsers == 3
NBooks == 3
MaxTime == 13
NWorkers == 2
MaxFavs == 4

(* Program constants *)

SEVEN_DAYS == 7
EMAIL_BOOK_LIMIT == 10
NoTime == -1
NoUser == 0

Users == 1..NUsers
Books == 1..NBooks
Explanations == {"", "why"}
TickDays == {6, 7}
Outcomes == {"sent", "silent_failure", "raised"}

----------------------------------------------------------------------------
(* Generic helpers *)

Max(a, b) == IF a >= b THEN a ELSE b

\* every order in which a query or a Python set may hand out the elements of S
Orders(S) ==
    {s \in [1..Cardinality(S) -> S] : \A i, j \in 1..Cardinality(S) : s[i] = s[j] => i = j}

\* the members of S in the order in which `order` lists them
InOrder(order, S) == SelectSeq(order, LAMBDA x : x \in S)

\* iteration over a Python set of book ids: a fixed order for a given set (ascending ids)
RECURSIVE SetOrder(_)
SetOrder(S) ==
    IF S = {} THEN <<>>
    ELSE LET least == CHOOSE x \in S : \A y \in S : x <= y
         IN  <<least>> \o SetOrder(S \ {least})

----------------------------------------------------------------------------
(* Tables *)

NoAccount == [status |-> "unused", email |-> FALSE, is_active |-> FALSE]
Member    == [status |-> "member", email |-> TRUE, is_active |-> TRUE]
Guest     == [status |-> "guest", email |-> FALSE, is_active |-> TRUE]

Live(u) == account[u].status \in {"member", "guest"}


NoPrefs == [exists |-> FALSE, receive_recommendation_emails |-> TRUE,
            unsubscribed_at |-> NoTime, last_recommendation_email_sent |-> NoTime]

\* no UserFavoriteBook instance
NoFavorite == [user |-> NoUser, book |-> 0, created_at |-> NoTime, explanation |-> ""]

\* a worker process without a request; otherwise the locals of the handler it runs
Idle == [pc |-> "idle", user |-> NoUser, todo |-> {}, user_a |-> NoUser,
         email_prefs |-> NoPrefs, now |-> 0, all_new_books |-> {},
         total_recommendations_count |-> 0, emails_sent |-> 0,
         favorite |-> NoFavorite, guest |-> NoUser, rows |-> {}]

\* UserEmailPreferences.objects.get_or_create(user=u): the row, with the field defaults when new
GetOrCreatePrefs(P, u) == [P[u] EXCEPT !.exists = TRUE]

\* UserFavoriteBook.objects.filter(user=u).values_list("book_id")
FavoriteBookIds(F, u) == {f.book : f \in {g \in F : g.user = u}}

\* variant: the update of an existing row also sets created_at
GetOrCreateFavoriteTouch(F, u, b, e, t) ==
    IF \E f \in F : f.user = u /\ f.book = b
    THEN IF e # ""
         THEN {IF f.user = u /\ f.book = b
               THEN [f EXCEPT !.explanation = e, !.created_at = t] ELSE f : f \in F}
         ELSE F
    ELSE F \cup {[user |-> u, book |-> b, created_at |-> t, explanation |-> e]}

\* UserFavoriteBook.objects.get_or_create(user=u, book=b, defaults={'explanation': e})
\* followed by the explanation update of an existing row
GetOrCreateFavorite(F, u, b, e, t) ==
    IF \E f \in F : f.user = u /\ f.book = b
    THEN IF e # ""
         THEN {IF f.user = u /\ f.book = b THEN [f EXCEPT !.explanation = e] ELSE f : f \in F}
         ELSE F
    ELSE F \cup {[user |-> u, book |-> b, created_at |-> t, explanation |-> e]}

RECURSIVE SaveAll(_, _, _, _, _)
SaveAll(F, u, bs, e, t) ==
    IF bs = {} THEN F
    ELSE LET b == CHOOSE x \in bs : TRUE
         IN  SaveAll(GetOrCreateFavorite(F, u, b, e[b], t), u, bs \ {b}, e, t)

\* number of rows get_or_create creates for the submitted books (saved_count)
SavedCount(F, u, bs) == Cardinality(bs \ FavoriteBookIds(F, u))

----------------------------------------------------------------------------
(* Overlap engine: recommendation_view *)

\* variant: only the users that also have a book outside ids count as similar
SimilarUsersWithNewBooks(F, ids, excluded) ==
    {u \in Users : FavoriteBookIds(F, u) \cap ids # {} /\ FavoriteBookIds(F, u) \ ids # {}}
        \ excluded

\* variant: a user counts as similar only from two shared books on
SimilarUsersTwoShared(F, ids, excluded) ==
    {u \in Users : Cardinality(FavoriteBookIds(F, u) \cap ids) >= 2} \ excluded

\* User.objects.filter(favorite_books__book_id__in=ids).exclude(id=...).distinct()
SimilarUsers(F, ids, excluded) ==
    {u \in Users : FavoriteBookIds(F, u) \cap ids # {}} \ excluded

HasEntry(recs, b) == \E i \in 1..Len(recs) : recs[i].book_id = b

EntryOf(recs, b) == recs[CHOOSE i \in 1..Len(recs) : recs[i].book_id = b]

\* variant: a list that is appended to instead of a dict keyed by book id
SetEntryAppend(recs, e) == Append(recs, e)

\* book_recommendations[book_id] = {...}: a dict keeps the position of a key it already holds
SetEntry(recs, e) ==
    IF HasEntry(recs, e.book_id)
    THEN [i \in 1..Len(recs) |-> IF recs[i].book_id = e.book_id THEN e ELSE recs[i]]
    ELSE Append(recs, e)

\* variant: the last user seen keeps the book
TakesLast(recs, b, overlap_count) == TRUE

\* variant: the first user seen keeps the book
TakesFirst(recs, b, overlap_count) == ~HasEntry(recs, b)

\* the condition under which the loop body records `user` for a book
Takes(recs, b, overlap_count) ==
    ~HasEntry(recs, b) \/ overlap_count > EntryOf(recs, b).overlap_count

\* variant: without the membership test
IsCandidateAlways(b, my) == TRUE

\* if book_id not in my_favorite_book_ids
IsCandidate(b, my) == b \notin my

\* for book_id in their_favorite_book_ids: ...
RECURSIVE ScanBooks(_, _, _, _, _)
ScanBooks(recs, their, my, user, overlapping) ==
    IF their = <<>> THEN recs
    ELSE LET b == Head(their)
             e == [book_id |-> b, similar_user |-> user,
                   overlap_count |-> Cardinality(overlapping),
                   overlapping_titles |-> overlapping]
         IN  ScanBooks(IF IsCandidate(b, my) /\ Takes(recs, b, Cardinality(overlapping))
                       THEN SetEntry(recs, e) ELSE recs,
                       Tail(their), my, user, overlapping)

\* variant: the neighbor's whole favorite set
OverlappingBookIdsTheirs(my, their) == their

\* overlapping_book_ids = my_favorite_book_ids & their_favorite_book_ids
OverlappingBookIds(my, their) == my \cap their

\* for user in similar_users: ...
RECURSIVE BookRecommendations(_, _, _, _)
BookRecommendations(recs, order, F, my) ==
    IF order = <<>> THEN recs
    ELSE LET user  == Head(order)
             their == FavoriteBookIds(F, user)
         IN  BookRecommendations(
                 ScanBooks(recs, SetOrder(their), my, user, OverlappingBookIds(my, their)),
                 Tail(order), F, my)

\* variant: an element is put in front of the elements of equal overlap_count
InsertByOverlapBefore(sorted, x) ==
    LET k == Cardinality({i \in 1..Len(sorted) : sorted[i].overlap_count > x.overlap_count})
    IN  SubSeq(sorted, 1, k) \o <<x>> \o SubSeq(sorted, k + 1, Len(sorted))

\* list.sort(key=lambda x: x['overlap_count'], reverse=True): stable
InsertByOverlap(sorted, x) ==
    LET k == Cardinality({i \in 1..Len(sorted) : sorted[i].overlap_count >= x.overlap_count})
    IN  SubSeq(sorted, 1, k) \o <<x>> \o SubSeq(sorted, k + 1, Len(sorted))

RECURSIVE SortByOverlapCount(_)
SortByOverlapCount(s) ==
    IF s = <<>> THEN <<>>
    ELSE InsertByOverlap(SortByOverlapCount(SubSeq(s, 1, Len(s) - 1)), s[Len(s)])

\* UserFavoriteBook.objects.filter(user=u, book=b).first().explanation, '' without a row
ExplanationFor(F, u, b) ==
    IF \E f \in F : f.user = u /\ f.book = b
    THEN (CHOOSE f \in F : f.user = u /\ f.book = b).explanation
    ELSE ""

\* for rec in recommended_data: group by similar_user, in order of first appearance
RECURSIVE GroupBySimilarUser(_, _, _)
GroupBySimilarUser(groups, data, F) ==
    IF data = <<>> THEN groups
    ELSE LET rec  == Head(data)
             item == [book |-> rec.book_id,
                      explanation |-> ExplanationFor(F, rec.similar_user, rec.book_id)]
             seen == \E i \in 1..Len(groups) : groups[i].similar_user = rec.similar_user
             opened == IF seen THEN groups
                       ELSE Append(groups, [similar_user |-> rec.similar_user,
                                            overlap_count |-> rec.overlap_count,
                                            overlapping_titles |-> rec.overlapping_titles,
                                            recommended_books |-> <<>>])
         IN  GroupBySimilarUser(
                 [i \in 1..Len(opened) |->
                     IF opened[i].similar_user = rec.similar_user
                     THEN [opened[i] EXCEPT !.recommended_books = Append(@, item)]
                     ELSE opened[i]],
                 Tail(data), F)

\* variant: the early return is never taken
NoFavoritesNever(my) == FALSE

\* if not my_favorite_book_ids
NoFavorites(my) == my = {}

NEED_FAVORITE == "You need to add at least one book you love to get recommendations!"

\* messages.warning of save_favorite_view when no row was created
NO_VALID_BOOKS == "No valid books were submitted."

Redirect ==
    [kind |-> "redirect", target |-> NoUser, authenticated |-> FALSE,
     grouped_recommendations |-> <<>>, formed |-> <<>>,
     diagnostic |-> [total_favorites |-> 0, similar_users_count |-> 0,
                     recommendations_count |-> 0, message |-> ""],
     show_no_new_books_message |-> FALSE, emails_sent |-> 0]

\* the context recommendation_view renders for the favorites `my` of `target`
Recommendations(F, target, authenticated, order) ==
    LET my      == IF target = NoUser THEN {} ELSE FavoriteBookIds(F, target)
        similar == SimilarUsers(F, my, IF authenticated THEN {target} ELSE {})
        recommended_data ==
            SortByOverlapCount(BookRecommendations(<<>>, order, F, my))
        \* list(grouped_recommendations.values()): the groups in the order they were formed
        formed == GroupBySimilarUser(<<>>, recommended_data, F)
        grouped_list == SortByOverlapCount(formed)
    IN  IF NoFavorites(my)
        THEN [Redirect EXCEPT !.kind = "recommendations", !.target = target,
                              !.authenticated = authenticated,
                              !.diagnostic.message = NEED_FAVORITE]
        ELSE [kind |-> "recommendations", target |-> target,
              authenticated |-> authenticated,
              grouped_recommendations |-> grouped_list, formed |-> formed,
              diagnostic |-> [total_favorites |-> Cardinality(my),
                              similar_users_count |-> Cardinality(similar),
                              recommendations_count |-> Len(recommended_data),
                              message |-> ""],
              show_no_new_books_message |->
                  Cardinality(similar) > 0 /\ Len(recommended_data) = 0,
              emails_sent |-> 0]

\* request.user.is_authenticated for the requester `who` (NoUser: the anonymous session)
Authenticated(who) ==
    who # NoUser /\ account[who].status = "member" /\ account[who].is_active

Requesters == {NoUser} \cup {u \in Users : Authenticated(u)}

\* the guest user the anonymous session resolves to (User.objects.get(id=guest_user_id))
SessionGuest ==
    IF guest_user_id # NoUser /\ Live(guest_user_id) THEN guest_user_id ELSE NoUser

RecommendationView(who) ==
    LET target  == IF who # NoUser THEN who ELSE SessionGuest
        my      == IF target = NoUser THEN {} ELSE FavoriteBookIds(favs, target)
        similar == SimilarUsers(favs, my, IF who # NoUser THEN {target} ELSE {})
    IN  /\ who \in Requesters
        /\ \E order \in Orders(similar) :
              resp' = Recommendations(favs, target, who # NoUser, order)
        /\ mail' = {}
        /\ evaluated' = {}
        /\ UNCHANGED <<now, account, guest_user_id, favs, prefs, last_dispatch, worker>>

----------------------------------------------------------------------------
(* Digest scheduler: _send_new_recommendation_emails *)

\* variant: without the filter on email and is_active
DigestCandidatesAnyAccount(F, A, user_b) ==
    SimilarUsers(F, FavoriteBookIds(F, user_b), {user_b})

\* similar_users: the other active users with an email who share a favorite with user_b
DigestCandidates(F, A, user_b) ==
    {u \in SimilarUsers(F, FavoriteBookIds(F, user_b), {user_b}) :
        A[u].email /\ A[u].is_active}

\* variant: a window of six days
ThrottledSixDays(ep, t) ==
    /\ ep.last_recommendation_email_sent # NoTime
    /\ t - ep.last_recommendation_email_sent < SEVEN_DAYS - 1

\* variant: the seventh day still belongs to the window
ThrottledThroughDaySeven(ep, t) ==
    /\ ep.last_recommendation_email_sent # NoTime
    /\ t - ep.last_recommendation_email_sent <= SEVEN_DAYS

\* if email_prefs.last_recommendation_email_sent: ... < timedelta(days=7): continue
Throttled(ep, t) ==
    /\ ep.last_recommendation_email_sent # NoTime
    /\ t - ep.last_recommendation_email_sent < SEVEN_DAYS

\* variant: the two conditions met by different rows of the user
RecentSimilarUsersAnyRow(F, user_a, t) ==
    {u \in Users \ {user_a} :
        /\ \E f \in F : f.user = u /\ f.book \in FavoriteBookIds(F, user_a)
        /\ \E f \in F : f.user = u /\ f.created_at >= t - SEVEN_DAYS}

\* recent_similar_users: the other users with a favorite row that is both shared with
\* user_a and created on or after seven_days_ago
RecentSimilarUsers(F, user_a, t) ==
    {u \in Users \ {user_a} :
        \E f \in F : /\ f.user = u
                     /\ f.book \in FavoriteBookIds(F, user_a)
                     /\ f.created_at >= t - SEVEN_DAYS}

\* recent_favorites of one similar user
RecentFavoriteBookIds(F, u, t) ==
    {f.book : f \in {g \in F : g.user = u /\ g.created_at >= t - SEVEN_DAYS}}

\* all_new_books
AllNewBooks(F, user_a, t) ==
    UNION {RecentFavoriteBookIds(F, u, t) \ FavoriteBookIds(F, user_a) :
              u \in RecentSimilarUsers(F, user_a, t)}

\* variant: the favorites of user_a are not taken out
AllRecommendedBookIdsWithOwn(F, user_a) ==
    UNION {FavoriteBookIds(F, u) :
              u \in SimilarUsers(F, FavoriteBookIds(F, user_a), {user_a})}

\* all_recommended_book_ids
AllRecommendedBookIds(F, user_a) ==
    UNION {FavoriteBookIds(F, u) \ FavoriteBookIds(F, user_a) :
              u \in SimilarUsers(F, FavoriteBookIds(F, user_a), {user_a})}

\* variant: without the slice
BooksForEmailAll(new_books) == {new_books}

\* new_books[:10] of an unordered queryset: any EMAIL_BOOK_LIMIT of them
BooksForEmail(new_books) ==
    {S \in SUBSET new_books :
        Cardinality(S) = IF Cardinality(new_books) <= EMAIL_BOOK_LIMIT
                         THEN Cardinality(new_books) ELSE EMAIL_BOOK_LIMIT}

\* the arguments handed to the template and send_mail for user_a
Digest(F, user_a, t, books, outcome) ==
    [to |-> user_a, at |-> t, new_books |-> books,
     total_recommendations_count |-> Cardinality(AllRecommendedBookIds(F, user_a)),
     additional_count |->
         Max(0, Cardinality(AllRecommendedBookIds(F, user_a)) - EMAIL_BOOK_LIMIT),
     outcome |-> outcome]

\* variant: without the unsubscribe check
DueUnsubscribed(F, ep, user_a, t) ==
    /\ ~Throttled(ep, t)
    /\ AllNewBooks(F, user_a, t) # {}

\* the checks of one loop iteration that lead to the try block
Due(F, ep, user_a, t) ==
    /\ ep.receive_recommendation_emails
    /\ ~Throttled(ep, t)
    /\ AllNewBooks(F, user_a, t) # {}

\* email_prefs.last_recommendation_email_sent = now; email_prefs.save()
MarkSent(ep, t) == [ep EXCEPT !.last_recommendation_email_sent = t]

\* variant: the timestamp is written for every candidate of the loop
AfterIterationAlways(F, P, user_a, t, outcome) ==
    MarkSent(GetOrCreatePrefs(P, user_a), t)

\* the row of user_a after its loop iteration; send_mail(fail_silently=True) returns
\* normally when delivery fails, only an exception skips the save
AfterIteration(F, P, user_a, t, outcome) ==
    LET ep == GetOrCreatePrefs(P, user_a)
    IN  IF Due(F, ep, user_a, t) /\ outcome # "raised" THEN MarkSent(ep, t) ELSE ep

\* the rows after the whole pass run for user_b at time t; m holds the dispatches of the pass
PassPrefs(F, A, P, user_b, t, m) ==
    [u \in Users |->
        IF u \in DigestCandidates(F, A, user_b)
        THEN AfterIteration(F, P, u, t,
                 IF \E d \in m : d.to = u /\ d.outcome = "raised" THEN "raised" ELSE "sent")
        ELSE P[u]]

\* variant: only the candidates that have user_b among their recent similar users
PassDueOfRecentActor(F, A, P, user_b, t) ==
    {u \in DigestCandidates(F, A, user_b) :
        /\ Due(F, GetOrCreatePrefs(P, u), u, t)
        /\ user_b \in RecentSimilarUsers(F, u, t)}

\* the candidates of the pass that reach the try block
PassDue(F, A, P, user_b, t) ==
    {u \in DigestCandidates(F, A, user_b) : Due(F, GetOrCreatePrefs(P, u), u, t)}

\* every set of dispatches the pass can make to the users in `due`, one per user, the
\* dispatcher answering each with one of `outcomes`
RECURSIVE PassMails(_, _, _, _)
PassMails(F, due, t, outcomes) ==
    IF due = {} THEN {{}}
    ELSE LET u == CHOOSE x \in due : TRUE
         IN  {m \cup {Digest(F, u, t, books, o)} :
                 m \in PassMails(F, due \ {u}, t, outcomes),
                 books \in BooksForEmail(AllNewBooks(F, u, t)),
                 o \in outcomes}

\* variant: the exception leaves the loop, the users after the failing one get nothing
EndsTheLoop(m) ==
    {d \in m : \A x \in m : x.outcome = "raised" => d.to <= x.to}

\* except Exception as e: logger.error(...): the loop goes on, every attempt of the pass
\* is made
CaughtPerRecipient(m) == m

----------------------------------------------------------------------------
(* Request handlers *)

\* the id User.objects.create_user gives a new row: ids are handed out in increasing order
Unused == {u \in Users : account[u].status = "unused"}
FreshId == CHOOSE u \in Unused : \A v \in Unused : u <= v

\* `if saved_count: _send_new_recommendation_emails(request)` on the tables F and A, and
\* the redirect that ends save_favorite_view
SendNewRecommendationEmails(F, A, user, runs, outcomes) ==
    LET due == IF runs THEN PassDue(F, A, prefs, user, now) ELSE {}
    IN  /\ evaluated' = IF runs THEN DigestCandidates(F, A, user) ELSE {}
        /\ \E attempts \in PassMails(F, due, now, outcomes) :
              LET m == CaughtPerRecipient(attempts) IN
              /\ mail' = m
              /\ prefs' = IF runs THEN PassPrefs(F, A, prefs, user, now, m) ELSE prefs
              /\ last_dispatch' = [u \in Users |->
                     IF \E d \in m : d.to = u /\ d.outcome = "sent"
                     THEN now ELSE last_dispatch[u]]
              /\ resp' = [Redirect EXCEPT
                     !.emails_sent = Cardinality({d \in m : d.outcome # "raised"}),
                     !.diagnostic.message = IF runs THEN "" ELSE NO_VALID_BOOKS]

\* save_favorite_view, with the digest pass it runs inline when a row was created
SaveFavorite(who, bs, e, outcomes) ==
    LET create == who = NoUser /\ SessionGuest = NoUser
        user   == IF who # NoUser THEN who
                  ELSE IF create THEN FreshId ELSE SessionGuest
        A      == IF create THEN [account EXCEPT ![user] = Guest] ELSE account
        F      == SaveAll(favs, user, bs, e, now)
    IN  /\ who \in Requesters
        /\ bs # {}
        /\ create => Unused # {}
        /\ e \in [bs -> Explanations]
        /\ account' = A
        /\ guest_user_id' = IF who = NoUser THEN user ELSE guest_user_id
        /\ favs' = F
        /\ SendNewRecommendationEmails(F, A, user, SavedCount(favs, user, bs) > 0, outcomes)
        /\ UNCHANGED <<now, worker>>

\* remove_favorite_view
RemoveFavorite(who, b) ==
    LET user == IF who # NoUser THEN who ELSE SessionGuest
    IN  /\ who \in Requesters
        /\ favs' = {f \in favs : ~(f.user = user /\ f.book = b)}
        /\ resp' = Redirect
        /\ mail' = {}
        /\ evaluated' = {}
        /\ UNCHANGED <<now, account, guest_user_id, prefs, last_dispatch, worker>>

\* variant: the rows of the guest are left in the table
MergedFavoritesKeepGuest(F, guest, user, t) ==
    F \cup {[user |-> user, book |-> f.book, created_at |-> t, explanation |-> f.explanation] :
               f \in {g \in F : g.user = guest /\ g.book \notin FavoriteBookIds(F, user)}}

\* for fav in guest favorites: get_or_create(user=user, book=fav.book, defaults=...)
MergedFavorites(F, guest, user, t) ==
    {f \in F : f.user # guest}
    \cup {[user |-> user, book |-> f.book, created_at |-> t, explanation |-> f.explanation] :
             f \in {g \in F : g.user = guest /\ g.book \notin FavoriteBookIds(F, user)}}

\* _merge_guest_favorites(request, user), called by the login and registration handlers
MergeGuestFavorites(user, A) ==
    LET guest_id == guest_user_id
    IN  /\ guest_user_id' = NoUser
        /\ IF guest_id = NoUser \/ guest_id = user \/ A[guest_id].status \notin {"member", "guest"}
           THEN /\ account' = A
                /\ UNCHANGED <<favs, prefs, last_dispatch>>
           ELSE /\ favs' = MergedFavorites(favs, guest_id, user, now)
                /\ account' = [A EXCEPT ![guest_id] = [NoAccount EXCEPT !.status = "deleted"]]
                /\ prefs' = [prefs EXCEPT ![guest_id] = NoPrefs]
                /\ UNCHANGED last_dispatch

\* homepage_view: a valid login form posted from the anonymous session
Login(user) ==
    /\ account[user].status = "member" /\ account[user].is_active
    /\ MergeGuestFavorites(user, account)
    /\ resp' = Redirect
    /\ mail' = {}
    /\ evaluated' = {}
    /\ UNCHANGED <<now, worker>>

\* register_view: a valid registration form posted from the anonymous session
Register ==
    /\ Unused # {}
    /\ MergeGuestFavorites(FreshId, [account EXCEPT ![FreshId] = Member])
    /\ resp' = Redirect
    /\ mail' = {}
    /\ evaluated' = {}
    /\ UNCHANGED <<now, worker>>

\* variant: only the flag is assigned
MarkUnsubscribedFlagOnly(ep, t) ==
    [ep EXCEPT !.receive_recommendation_emails = FALSE]

\* email_prefs.receive_recommendation_emails = False; email_prefs.unsubscribed_at = now
MarkUnsubscribed(ep, t) ==
    [ep EXCEPT !.receive_recommendation_emails = FALSE, !.unsubscribed_at = t]

\* unsubscribe_recommendations_view with a valid token of `user`
Unsubscribe(user) ==
    /\ Live(user)
    /\ prefs' = [prefs EXCEPT ![user] = MarkUnsubscribed(GetOrCreatePrefs(prefs, user), now)]
    /\ resp' = Redirect
    /\ mail' = {}
    /\ evaluated' = {}
    /\ UNCHANGED <<now, account, guest_user_id, favs, last_dispatch, worker>>

\* manage.py resubscribe_recommendation_emails <username>
Resubscribe(user) ==
    /\ Live(user)
    /\ prefs' = [prefs EXCEPT ![user] =
           IF GetOrCreatePrefs(prefs, user).receive_recommendation_emails
           THEN GetOrCreatePrefs(prefs, user)
           ELSE [GetOrCreatePrefs(prefs, user) EXCEPT !.receive_recommendation_emails = TRUE,
                                                      !.unsubscribed_at = NoTime]]
    /\ resp' = Redirect
    /\ mail' = {}
    /\ evaluated' = {}
    /\ UNCHANGED <<now, account, guest_user_id, favs, last_dispatch, worker>>

\* d days pass
Tick(d) ==
    /\ now + d <= MaxTime
    /\ now' = now + d
    /\ mail' = {}
    /\ evaluated' = {}
    /\ UNCHANGED <<account, guest_user_id, favs, prefs, resp, last_dispatch, worker>>

----------------------------------------------------------------------------
(* The system handling one request at a time *)

NMembers == NUsers - 1

Init ==
    /\ now = 0
    /\ account = [u \in Users |-> IF u <= NMembers THEN Member ELSE NoAccount]
    /\ guest_user_id = NoUser
    /\ favs = {}
    /\ prefs = [u \in Users |-> NoPrefs]
    /\ resp = Redirect
    /\ mail = {}
    /\ last_dispatch = [u \in Users |-> NoTime]
    /\ evaluated = {}
    /\ worker = [w \in 1..NWorkers |-> Idle]

Next ==
    \/ \E who \in Users \cup {NoUser}, bs \in SUBSET Books :
          SaveFavorite(who, bs, [b \in bs |-> ""], {"sent"})
    \/ \E who \in Users \cup {NoUser}, b \in Books : RemoveFavorite(who, b)
    \/ \E user \in Users : Login(user)
    \/ \E who \in Users \cup {NoUser} : RecommendationView(who)

Spec == Init /\ [][Next]_vars

----------------------------------------------------------------------------
(* The digest scheduler over time, one request at a time, the dispatcher failing at will *)

NextDigest ==
    \/ \E who \in Users \cup {NoUser}, b \in Books :
          /\ Cardinality(favs) < MaxFavs
          /\ SaveFavorite(who, {b}, [x \in {b} |-> ""], Outcomes)
    \/ \E d \in TickDays : Tick(d)

SpecDigest == Init /\ [][NextDigest]_vars

----------------------------------------------------------------------------
(* The digest scheduler with requests that lie eight days apart *)

EightDays == SEVEN_DAYS + 1

NextEightDays ==
    \/ \E who \in Users \cup {NoUser}, b \in Books :
          /\ Cardinality(favs) < MaxFavs
          /\ SaveFavorite(who, {b}, [x \in {b} |-> ""], {"sent"})
    \/ Tick(EightDays)

SpecEightDays == Init /\ [][NextEightDays]_vars

----------------------------------------------------------------------------
(* The digest scheduler with forms that submit many books at once *)

NBulk == 12

\* the books of the submitted forms: one book, two books, all but the first, all of them
BulkForms == {{1}, {1, 2}, 2..NBulk, 1..NBulk}

NextBulk ==
    \/ \E who \in Users \cup {NoUser}, bs \in BulkForms :
          SaveFavorite(who, bs, [x \in bs |-> ""], {"sent"})
    \/ Tick(EightDays)

SpecBulk == Init /\ [][NextBulk]_vars

----------------------------------------------------------------------------
(* The digest scheduler with favorites older than the seven-day window *)

NextRecency ==
    \/ \E who \in Users \cup {NoUser}, b \in Books :
          /\ Cardinality(favs) <= MaxFavs
          /\ SaveFavorite(who, {b}, [x \in {b} |-> ""], {"sent"})
    \/ \E d \in TickDays \cup {EightDays} : Tick(d)

SpecRecency == Init /\ [][NextRecency]_vars

----------------------------------------------------------------------------
(* Guests that become members: favorites saved with an explanation, login and            *)
(* registration from the session of a guest, requests eight days apart                   *)

InitMerge ==
    /\ now = 0
    /\ account = [u \in Users |-> IF u = 1 THEN Member ELSE NoAccount]
    /\ guest_user_id = NoUser
    /\ favs = {}
    /\ prefs = [u \in Users |-> NoPrefs]
    /\ resp = Redirect
    /\ mail = {}
    /\ last_dispatch = [u \in Users |-> NoTime]
    /\ evaluated = {}
    /\ worker = [w \in 1..NWorkers |-> Idle]

MaxMergeFavs == 3

NextMerge ==
    \/ \E who \in Users \cup {NoUser}, b \in Books, e \in Explanations :
          /\ Cardinality(favs) < MaxMergeFavs
          /\ SaveFavorite(who, {b}, [x \in {b} |-> e], {"sent"})
    \/ \E user \in Users : Login(user)
    \/ Register
    \/ Tick(EightDays)

SpecMerge == InitMerge /\ [][NextMerge]_vars

----------------------------------------------------------------------------
(* The digest scheduler over user tables that hold imported and deactivated accounts     *)

\* the user rows the site can hold: registered members, members without an email
\* (import_csv_data), members that were deactivated, seed users of import_ratings
\* (inactive, no email), and ids not yet handed out
AccountRows ==
    {Member, [Member EXCEPT !.email = FALSE], [Member EXCEPT !.is_active = FALSE],
     [Member EXCEPT !.email = FALSE, !.is_active = FALSE], NoAccount}

MaxImported == 2

InitRecipients ==
    /\ now = 0
    /\ account \in {A \in [Users -> AccountRows] :
                       /\ A[1] = Member
                       /\ \A u, v \in Users : u < v /\ A[u] = NoAccount => A[v] = NoAccount}
    /\ guest_user_id = NoUser
    /\ favs \in {F \in SUBSET [user : Users, book : Books, created_at : {0}, explanation : {""}] :
                    /\ Cardinality(F) <= MaxImported
                    /\ \A f \in F : account[f.user].status = "member"}
    /\ prefs = [u \in Users |-> NoPrefs]
    /\ resp = Redirect
    /\ mail = {}
    /\ last_dispatch = [u \in Users |-> NoTime]
    /\ evaluated = {}
    /\ worker = [w \in 1..NWorkers |-> Idle]

NextRecipients ==
    \E who \in Users \cup {NoUser}, b \in Books :
        /\ Cardinality(favs) <= MaxFavs
        /\ SaveFavorite(who, {b}, [x \in {b} |-> ""], {"sent"})

SpecRecipients == InitRecipients /\ [][NextRecipients]_vars

----------------------------------------------------------------------------
(* Subscriptions and the digest scheduler, one request at a time *)

SubscriptionDays == 7

Subscribers == {u \in Users : Live(u) /\ account[u].email}

NextSubscription ==
    \/ \E who \in Users \cup {NoUser}, b \in Books :
          /\ Cardinality(favs) < MaxFavs
          /\ SaveFavorite(who, {b}, [x \in {b} |-> ""], {"sent"})
    \/ \E user \in Subscribers : Unsubscribe(user)
    \/ \E user \in Subscribers : Resubscribe(user)
    \/ \E d \in TickDays : now + d <= SubscriptionDays /\ Tick(d)

SpecSubscription == Init /\ [][NextSubscription]_vars

----------------------------------------------------------------------------
(* Concurrent requests: each worker process runs its handler one statement group at a    *)
(* time, every database call being one step                                              *)

\* save_favorite_view up to the evaluation of similar_users (views.py 383-507, 36-68, 93)
SaveBegin(w, who, b) ==
    LET create == who = NoUser /\ SessionGuest = NoUser
        user   == IF who # NoUser THEN who
                  ELSE IF create THEN FreshId ELSE SessionGuest
        A      == IF create THEN [account EXCEPT ![user] = Guest] ELSE account
        F      == GetOrCreateFavorite(favs, user, b, "", now)
    IN  /\ worker[w].pc = "idle"
        /\ who \in Requesters
        /\ create => Unused # {}
        /\ account' = A
        /\ guest_user_id' = IF who = NoUser THEN user ELSE guest_user_id
        /\ favs' = F
        /\ worker' = [worker EXCEPT ![w] =
               IF SavedCount(favs, user, {b}) > 0
               THEN [Idle EXCEPT !.pc = "loop", !.user = user,
                                 !.todo = DigestCandidates(F, A, user)]
               ELSE Idle]
        /\ resp' = IF SavedCount(favs, user, {b}) > 0 THEN Redirect
                   ELSE [Redirect EXCEPT !.diagnostic.message = NO_VALID_BOOKS]
        /\ mail' = {}
        /\ evaluated' = {}
        /\ UNCHANGED <<now, prefs, last_dispatch>>

\* the head of one loop iteration: get_or_create and the two skip checks (views.py 93-104)
PassCheck(w) ==
    /\ worker[w].pc = "loop"
    /\ \E user_a \in worker[w].todo :
          LET ep == GetOrCreatePrefs(prefs, user_a)
          IN  /\ prefs' = [prefs EXCEPT ![user_a] = ep]
              /\ evaluated' = {user_a}
              /\ worker' = [worker EXCEPT ![w] =
                     IF ~ep.receive_recommendation_emails \/ Throttled(ep, now)
                     THEN [@ EXCEPT !.todo = @ \ {user_a}]
                     ELSE [@ EXCEPT !.pc = "collect", !.todo = @ \ {user_a},
                                    !.user_a = user_a, !.email_prefs = ep, !.now = now]]
    /\ mail' = {}
    /\ UNCHANGED <<now, account, guest_user_id, favs, resp, last_dispatch>>

\* the queries that collect the new books and the total count (views.py 106-169)
PassCollect(w) ==
    /\ worker[w].pc = "collect"
    /\ worker' = [worker EXCEPT ![w] =
           IF AllNewBooks(favs, @.user_a, @.now) = {}
           THEN [@ EXCEPT !.pc = "loop"]
           ELSE [@ EXCEPT !.pc = "send",
                          !.all_new_books = AllNewBooks(favs, worker[w].user_a, worker[w].now),
                          !.total_recommendations_count =
                              Cardinality(AllRecommendedBookIds(favs, worker[w].user_a))]]
    /\ mail' = {}
    /\ evaluated' = {}
    /\ UNCHANGED <<now, account, guest_user_id, favs, prefs, resp, last_dispatch>>

\* the try block up to send_mail (views.py 171-213)
PassSend(w, outcome) ==
    /\ worker[w].pc = "send"
    /\ \E books \in BooksForEmail(worker[w].all_new_books) :
          mail' = {[to |-> worker[w].user_a, at |-> worker[w].now, new_books |-> books,
                    total_recommendations_count |-> worker[w].total_recommendations_count,
                    additional_count |->
                        Max(0, worker[w].total_recommendations_count - EMAIL_BOOK_LIMIT),
                    outcome |-> outcome]}
    /\ last_dispatch' = IF outcome = "sent"
                        THEN [last_dispatch EXCEPT ![worker[w].user_a] = worker[w].now]
                        ELSE last_dispatch
    /\ worker' = [worker EXCEPT ![w].pc = IF outcome = "raised" THEN "loop" ELSE "save"]
    /\ evaluated' = {}
    /\ UNCHANGED <<now, account, guest_user_id, favs, prefs, resp>>

\* email_prefs.last_recommendation_email_sent = now; email_prefs.save(): the instance read
\* at the head of the iteration is written back with all its fields (views.py 215-219)
PassSave(w) ==
    /\ worker[w].pc = "save"
    /\ prefs' = [prefs EXCEPT ![worker[w].user_a] = MarkSent(worker[w].email_prefs, worker[w].now)]
    /\ worker' = [worker EXCEPT ![w].pc = "loop", ![w].emails_sent = @ + 1]
    /\ mail' = {}
    /\ evaluated' = {}
    /\ UNCHANGED <<now, account, guest_user_id, favs, resp, last_dispatch>>

\* return emails_sent, and the redirect of save_favorite_view (views.py 225, 511-515)
PassEnd(w) ==
    /\ worker[w].pc = "loop"
    /\ worker[w].todo = {}
    /\ worker' = [worker EXCEPT ![w] = Idle]
    /\ resp' = [Redirect EXCEPT !.emails_sent = worker[w].emails_sent]
    /\ mail' = {}
    /\ evaluated' = {}
    /\ UNCHANGED <<now, account, guest_user_id, favs, prefs, last_dispatch>>

\* unsubscribe_recommendations_view: get_or_create (views.py 1089-1091)
UnsubscribeBegin(w, user) ==
    /\ worker[w].pc = "idle"
    /\ Live(user)
    /\ prefs' = [prefs EXCEPT ![user] = GetOrCreatePrefs(prefs, user)]
    /\ worker' = [worker EXCEPT ![w] =
           [Idle EXCEPT !.pc = "unsubscribe", !.user = user,
                        !.email_prefs = GetOrCreatePrefs(prefs, user)]]
    /\ mail' = {}
    /\ evaluated' = {}
    /\ UNCHANGED <<now, account, guest_user_id, favs, resp, last_dispatch>>

\* unsubscribe_recommendations_view: the two assignments and save() (views.py 1092-1094)
UnsubscribeSave(w) ==
    /\ worker[w].pc = "unsubscribe"
    /\ prefs' = [prefs EXCEPT ![worker[w].user] = MarkUnsubscribed(worker[w].email_prefs, now)]
    /\ worker' = [worker EXCEPT ![w] = Idle]
    /\ resp' = Redirect
    /\ mail' = {}
    /\ evaluated' = {}
    /\ UNCHANGED <<now, account, guest_user_id, favs, last_dispatch>>

\* resubscribe command: get_or_create and the test of the flag (lines 21-24)
ResubscribeBegin(w, user) ==
    /\ worker[w].pc = "idle"
    /\ Live(user)
    /\ prefs' = [prefs EXCEPT ![user] = GetOrCreatePrefs(prefs, user)]
    /\ worker' = [worker EXCEPT ![w] =
           IF GetOrCreatePrefs(prefs, user).receive_recommendation_emails
           THEN Idle
           ELSE [Idle EXCEPT !.pc = "resubscribe", !.user = user,
                             !.email_prefs = GetOrCreatePrefs(prefs, user)]]
    /\ mail' = {}
    /\ evaluated' = {}
    /\ UNCHANGED <<now, account, guest_user_id, favs, resp, last_dispatch>>

\* resubscribe command: the two assignments and save() (lines 26-28)
ResubscribeSave(w) ==
    /\ worker[w].pc = "resubscribe"
    /\ prefs' = [prefs EXCEPT ![worker[w].user] =
           [worker[w].email_prefs EXCEPT !.receive_recommendation_emails = TRUE,
                                         !.unsubscribed_at = NoTime]]
    /\ worker' = [worker EXCEPT ![w] = Idle]
    /\ mail' = {}
    /\ evaluated' = {}
    /\ UNCHANGED <<now, account, guest_user_id, favs, resp, last_dispatch>>

Workers == 1..NWorkers

NextConcurrent ==
    \/ \E w \in Workers, who \in Users \cup {NoUser}, b \in Books :
          Cardinality(favs) < MaxFavs /\ SaveBegin(w, who, b)
    \/ \E w \in Workers : PassCheck(w)
    \/ \E w \in Workers : PassCollect(w)
    \/ \E w \in Workers, outcome \in Outcomes : PassSend(w, outcome)
    \/ \E w \in Workers : PassSave(w)
    \/ \E w \in Workers : PassEnd(w)
    \/ \E w \in Workers, user \in Subscribers : UnsubscribeBegin(w, user)
    \/ \E w \in Workers : UnsubscribeSave(w)
    \/ \E w \in Workers, user \in Subscribers : ResubscribeBegin(w, user)
    \/ \E w \in Workers : ResubscribeSave(w)

SpecConcurrent == Init /\ [][NextConcurrent]_vars

----------------------------------------------------------------------------
(* Concurrent requests on the favorite table: get_or_create is a SELECT followed by an    *)
(* INSERT, and the table carries the unique constraint on (user, book)                    *)

NStoreBooks == 1

StoreBooks == 1..NStoreBooks

\* variant: the table without the constraint
UniqueTogetherOff(F, u, b) == FALSE

\* unique_together = ("user", "book"): an INSERT of a row for (u, b) is rejected
UniqueTogether(F, u, b) == \E f \in F : f.user = u /\ f.book = b

\* the row of (u, b)
FavoriteOf(F, u, b) == CHOOSE f \in F : f.user = u /\ f.book = b

\* save_favorite_view up to the SELECT of get_or_create (views.py 383-455, 467-487)
SaveGet(w, who, b, e) ==
    LET create == who = NoUser /\ SessionGuest = NoUser
        user   == IF who # NoUser THEN who
                  ELSE IF create THEN FreshId ELSE SessionGuest
        found  == b \in FavoriteBookIds(favs, user)
    IN  /\ worker[w].pc = "idle"
        /\ who \in Requesters
        /\ create => Unused # {}
        /\ account' = IF create THEN [account EXCEPT ![user] = Guest] ELSE account
        /\ guest_user_id' = IF who = NoUser THEN user ELSE guest_user_id
        /\ worker' = [worker EXCEPT ![w] =
               IF found
               THEN IF e # ""
                    THEN [Idle EXCEPT !.pc = "update", !.user = user,
                                      !.favorite = [FavoriteOf(favs, user, b)
                                                       EXCEPT !.explanation = e]]
                    ELSE Idle
               ELSE [Idle EXCEPT !.pc = "create", !.user = user,
                                 !.favorite = [user |-> user, book |-> b,
                                               created_at |-> now, explanation |-> e]]]
        /\ resp' = Redirect
        /\ mail' = {}
        /\ evaluated' = {}
        /\ UNCHANGED <<now, favs, prefs, last_dispatch>>

\* the INSERT of get_or_create; a rejected INSERT makes get_or_create return the row that
\* is there, and the handler goes on as for a row it found; after an accepted INSERT the
\* handler runs the digest pass and redirects (views.py 455-465, 488-515)
SaveCreate(w) ==
    LET fav == worker[w].favorite
    IN  /\ worker[w].pc = "create"
        /\ IF UniqueTogether(favs, fav.user, fav.book) \/ ~Live(fav.user)
           THEN /\ worker' = [worker EXCEPT ![w] =
                       IF fav.book \in FavoriteBookIds(favs, fav.user) /\ fav.explanation # ""
                       THEN [@ EXCEPT !.pc = "update",
                                      !.favorite = [FavoriteOf(favs, fav.user, fav.book)
                                                       EXCEPT !.explanation = fav.explanation]]
                       ELSE Idle]
                /\ resp' = Redirect
                /\ mail' = {}
                /\ evaluated' = {}
                /\ UNCHANGED <<favs, prefs, last_dispatch>>
           ELSE /\ favs' = favs \cup {fav}
                /\ worker' = [worker EXCEPT ![w] = Idle]
                /\ SendNewRecommendationEmails(favs \cup {fav}, account, fav.user, TRUE, {"sent"})
        /\ UNCHANGED <<now, account, guest_user_id>>

\* favorite.explanation = explanation_text; favorite.save(): an UPDATE of the row, or an
\* INSERT of the instance when the row is gone (views.py 459-461, 494-496)
SaveUpdate(w) ==
    LET fav == worker[w].favorite
    IN  /\ worker[w].pc = "update"
        /\ favs' = IF fav.book \in FavoriteBookIds(favs, fav.user)
                   THEN {IF f.user = fav.user /\ f.book = fav.book
                         THEN [f EXCEPT !.explanation = fav.explanation] ELSE f : f \in favs}
                   ELSE IF Live(fav.user) THEN favs \cup {fav} ELSE favs
        /\ worker' = [worker EXCEPT ![w] = Idle]
        /\ resp' = Redirect
        /\ mail' = {}
        /\ evaluated' = {}
        /\ UNCHANGED <<now, account, guest_user_id, prefs, last_dispatch>>

\* homepage_view with a valid login form, up to the query of the guest's favorites
\* (views.py 251-262, 232-240)
LoginBegin(w, user) ==
    LET guest_id == guest_user_id
    IN  /\ worker[w].pc = "idle"
        /\ account[user].status = "member" /\ account[user].is_active
        /\ guest_user_id' = NoUser
        /\ worker' = [worker EXCEPT ![w] =
               IF guest_id = NoUser \/ guest_id = user \/ ~Live(guest_id)
               THEN Idle
               ELSE [Idle EXCEPT !.pc = "merge", !.user = user, !.guest = guest_id,
                                 !.rows = {f \in favs : f.user = guest_id}]]
        /\ resp' = Redirect
        /\ mail' = {}
        /\ evaluated' = {}
        /\ UNCHANGED <<now, account, favs, prefs, last_dispatch>>

\* the SELECT of get_or_create for the next favorite of the guest (views.py 241-246)
MergeGet(w) ==
    /\ worker[w].pc = "merge"
    /\ \E fav \in worker[w].rows :
          worker' = [worker EXCEPT ![w] =
              IF fav.book \in FavoriteBookIds(favs, worker[w].user)
              THEN [@ EXCEPT !.rows = @ \ {fav}]
              ELSE [@ EXCEPT !.pc = "merge_create", !.rows = @ \ {fav},
                             !.favorite = [user |-> worker[w].user, book |-> fav.book,
                                           created_at |-> now,
                                           explanation |-> fav.explanation]]]
    /\ mail' = {}
    /\ evaluated' = {}
    /\ UNCHANGED <<now, account, guest_user_id, favs, prefs, resp, last_dispatch>>

\* the INSERT of that get_or_create (views.py 242-246)
MergeCreate(w) ==
    LET fav == worker[w].favorite
    IN  /\ worker[w].pc = "merge_create"
        /\ favs' = IF UniqueTogether(favs, fav.user, fav.book) THEN favs ELSE favs \cup {fav}
        /\ worker' = [worker EXCEPT ![w].pc = "merge", ![w].favorite = NoFavorite]
        /\ mail' = {}
        /\ evaluated' = {}
        /\ UNCHANGED <<now, account, guest_user_id, prefs, resp, last_dispatch>>

\* UserFavoriteBook.objects.filter(user=guest_user).delete() (views.py 248)
MergeDelete(w) ==
    /\ worker[w].pc = "merge"
    /\ worker[w].rows = {}
    /\ favs' = {f \in favs : f.user # worker[w].guest}
    /\ worker' = [worker EXCEPT ![w].pc = "merge_delete_user"]
    /\ mail' = {}
    /\ evaluated' = {}
    /\ UNCHANGED <<now, account, guest_user_id, prefs, resp, last_dispatch>>

\* guest_user.delete(), which cascades to the rows that point to the guest, and the
\* redirect (views.py 249, 263-264)
MergeDeleteUser(w) ==
    LET guest_id == worker[w].guest
    IN  /\ worker[w].pc = "merge_delete_user"
        /\ favs' = {f \in favs : f.user # guest_id}
        /\ account' = [account EXCEPT ![guest_id] = [NoAccount EXCEPT !.status = "deleted"]]
        /\ prefs' = [prefs EXCEPT ![guest_id] = NoPrefs]
        /\ worker' = [worker EXCEPT ![w] = Idle]
        /\ resp' = Redirect
        /\ mail' = {}
        /\ evaluated' = {}
        /\ UNCHANGED <<now, guest_user_id, last_dispatch>>

NextStore ==
    \/ \E w \in Workers, who \in Users \cup {NoUser}, b \in StoreBooks, e \in Explanations :
          SaveGet(w, who, b, e)
    \/ \E w \in Workers : SaveCreate(w)
    \/ \E w \in Workers : SaveUpdate(w)
    \/ \E who \in Users \cup {NoUser}, b \in StoreBooks : RemoveFavorite(who, b)
    \/ \E w \in Workers, user \in Users : LoginBegin(w, user)
    \/ \E w \in Workers : MergeGet(w)
    \/ \E w \in Workers : MergeCreate(w)
    \/ \E w \in Workers : MergeDelete(w)
    \/ \E w \in Workers : MergeDeleteUser(w)

SpecStore == Init /\ [][NextStore]_vars

----------------------------------------------------------------------------
(* The overlap engine as a function of the favorite store: the store is any set of rows   *)
(* the members and the session guest can have saved, and the page is requested on it      *)

NEngineBooks == 4

EngineBooks == 1..NEngineBooks

\* the rows of UserFavoriteBook for the pairs <<user, book>> in S
FavoriteRows(S) ==
    {[user |-> p[1], book |-> p[2], created_at |-> 0, explanation |-> ""] : p \in S}

InitEngine ==
    /\ now = 0
    /\ account = [u \in Users |-> IF u <= NMembers THEN Member ELSE Guest]
    /\ guest_user_id = NUsers
    /\ \E S \in SUBSET (Users \X EngineBooks) : favs = FavoriteRows(S)
    /\ prefs = [u \in Users |-> NoPrefs]
    /\ resp = Redirect
    /\ mail = {}
    /\ last_dispatch = [u \in Users |-> NoTime]
    /\ evaluated = {}
    /\ worker = [w \in 1..NWorkers |-> Idle]

NextEngine == \E who \in Users \cup {NoUser} : RecommendationView(who)

SpecEngine == InitEngine /\ [][NextEngine]_vars

----------------------------------------------------------------------------
(* Vocabulary of the properties, stated on the tables directly *)

\* favorites(u)
Favorites(u) == {f.book : f \in {g \in favs : g.user = u}}

\* the neighbors of u: the other users sharing at least one favorite with u
Neighbors(u) == {n \in Users \ {u} : Favorites(n) \cap Favorites(u) # {}}

\* overlap(n) for target u
Overlap(u, n) == Cardinality(Favorites(u) \cap Favorites(n))

\* the candidate books of u: the union over the neighbors n of Fn \ F
Candidates(u) == UNION {Favorites(n) \ Favorites(u) : n \in Neighbors(u)}

\* resp answers get_recommendations(resp.target) on the current favorite store
Answered == resp.kind = "recommendations" /\ resp.target # NoUser

Groups == resp.grouped_recommendations

BooksOf(g) == {g.recommended_books[j].book : j \in 1..Len(g.recommended_books)}

Recommended == UNION {BooksOf(Groups[i]) : i \in 1..Len(Groups)}

\* the places <<group, position>> at which book b occurs in the output
Places(b) ==
    {p \in (1..Len(Groups)) \X (1..NBooks) :
        /\ p[2] <= Len(Groups[p[1]].recommended_books)
        /\ Groups[p[1]].recommended_books[p[2]].book = b}

GuestMerged == \E u \in Users : account[u].status = "deleted"

----------------------------------------------------------------------------
(* Properties of the overlap engine *)

\* C1: in every reachable state of the favorite store, no book in any group returned by
\* get_recommendations(u) is a current favorite of u.
C1_NoSelfRecommendation ==
    Answered => Recommended \cap Favorites(resp.target) = {}

C1_Witness ==
    /\ Answered /\ GuestMerged
    /\ Recommended # {}
    /\ \E n \in Neighbors(resp.target) : Favorites(n) \cap Favorites(resp.target) # {}

\* C7: every returned group carries overlap_count = |favorites(u) \cap favorites(neighbor)|,
\* which is at least 1, and its neighbor is a user other than u.
C7_GroupOverlap ==
    Answered =>
        \A i \in 1..Len(Groups) :
            /\ Groups[i].similar_user # resp.target
            /\ Groups[i].overlap_count = Overlap(resp.target, Groups[i].similar_user)
            /\ Groups[i].overlap_count >= 1

C7_Witness ==
    /\ Answered
    /\ \E i \in 1..Len(Groups) :
          /\ Groups[i].overlap_count = 2
          /\ Cardinality(Favorites(Groups[i].similar_user)) = 3

\* C8: every recommended book sits in the group of a neighbor whose overlap is maximal
\* among the neighbors that have the book as a favorite.
C8_MaximalOverlapAttribution ==
    Answered =>
        \A i \in 1..Len(Groups) : \A b \in BooksOf(Groups[i]) :
            \A m \in Neighbors(resp.target) :
                b \in Favorites(m) =>
                    Overlap(resp.target, Groups[i].similar_user) >= Overlap(resp.target, m)

C8_Witness ==
    /\ Answered
    /\ \E i \in 1..Len(Groups) : \E b \in BooksOf(Groups[i]) :
          \E m \in Neighbors(resp.target) :
              /\ b \in Favorites(m)
              /\ Overlap(resp.target, m) < Overlap(resp.target, Groups[i].similar_user)

\* C9: every candidate book occurs in exactly one group and once in it, and no book occurs
\* more than once in the output.
C9_NoDoubleCounting ==
    Answered =>
        \A b \in Books :
            /\ Cardinality(Places(b)) <= 1
            /\ b \in Candidates(resp.target) => Cardinality(Places(b)) = 1

C9_Witness ==
    /\ Answered
    /\ \E b \in Recommended :
          Cardinality({n \in Neighbors(resp.target) : b \in Favorites(n)}) >= 2

\* C10: the books over all groups are exactly the union over the neighbors n of Fn \ F,
\* recommendations_count is the size of that set, and with a single neighbor that has a
\* new book the output is one group holding exactly Fn \ F.
C10_CandidateSet ==
    Answered /\ Favorites(resp.target) # {} =>
        /\ Recommended = Candidates(resp.target)
        /\ resp.diagnostic.recommendations_count = Cardinality(Candidates(resp.target))
        /\ \A n \in Users :
              Neighbors(resp.target) = {n} /\ Favorites(n) \ Favorites(resp.target) # {} =>
                  /\ Len(Groups) = 1
                  /\ Groups[1].similar_user = n
                  /\ BooksOf(Groups[1]) = Favorites(n) \ Favorites(resp.target)

C10_Witness ==
    /\ Answered
    /\ \E n \in Users :
          /\ Neighbors(resp.target) = {n}
          /\ Cardinality(Favorites(n) \ Favorites(resp.target)) = 2
          /\ Len(Groups) = 1

\* the position of the group of neighbor n in the sequence of groups s
PositionOf(s, n) == CHOOSE i \in 1..Len(s) : s[i].similar_user = n

\* C11: the returned groups are in descending order of overlap_count, and groups of equal
\* overlap_count stand in the order in which they were first formed.
C11_GroupsSortedStable ==
    Answered =>
        /\ \A i \in 1..Len(Groups) - 1 :
              Groups[i].overlap_count >= Groups[i + 1].overlap_count
        /\ {Groups[i] : i \in 1..Len(Groups)} = {resp.formed[i] : i \in 1..Len(resp.formed)}
        /\ Len(Groups) = Len(resp.formed)
        /\ \A i, j \in 1..Len(Groups) :
              i < j /\ Groups[i].overlap_count = Groups[j].overlap_count =>
                  PositionOf(resp.formed, Groups[i].similar_user)
                      < PositionOf(resp.formed, Groups[j].similar_user)

\* two groups of equal overlap are returned, the one formed first being that of the
\* neighbor the store returned first, here the one of larger id
C11_Witness ==
    /\ Answered
    /\ \E i, j \in 1..Len(Groups) :
          /\ i < j
          /\ Groups[i].overlap_count = Groups[j].overlap_count
          /\ Groups[i].similar_user > Groups[j].similar_user

\* the context handed to the template
Context(r) ==
    [grouped_recommendations |-> r.grouped_recommendations,
     diagnostic |-> r.diagnostic,
     show_no_new_books_message |-> r.show_no_new_books_message]

\* C12: two calls of get_recommendations(u) on the same snapshot of the favorite store
\* return identical output (groups, attribution, order), also when neighbors sharing a
\* candidate book tie on overlap and the store returns them in another order.
C12_SameOutputOnSameSnapshot ==
    [][/\ resp.kind = "recommendations" /\ resp'.kind = "recommendations"
       /\ resp'.target = resp.target /\ resp'.authenticated = resp.authenticated
       /\ favs' = favs
       => Context(resp') = Context(resp)]_vars

\* C13: a neighbor whose favorites are all favorites of the target appears in no output
\* group and is still counted in similar_users_count.
C13_SubsetNeighborCounted ==
    Answered /\ Favorites(resp.target) # {} =>
        \A n \in Neighbors(resp.target) :
            Favorites(n) \subseteq Favorites(resp.target) =>
                /\ \A i \in 1..Len(Groups) : Groups[i].similar_user # n
                /\ resp.diagnostic.similar_users_count >= Cardinality(Neighbors(resp.target))

\* a neighbor without a new book next to a neighbor that has one
C13_Witness ==
    /\ Answered /\ resp.authenticated
    /\ \E n, m \in Neighbors(resp.target) :
          /\ Favorites(n) \subseteq Favorites(resp.target)
          /\ Len(Groups) = 1 /\ Groups[1].similar_user = m
          /\ resp.diagnostic.similar_users_count = 2

\* C14: a target with favorites, authenticated or session guest, is never its own
\* neighbor: similar_users_count counts the other users sharing a favorite, and without
\* such a user the outcome is not the 'similar readers but no new books' one.
C14_NotOwnNeighbor ==
    Answered /\ Favorites(resp.target) # {} =>
        /\ resp.diagnostic.similar_users_count = Cardinality(Neighbors(resp.target))
        /\ Neighbors(resp.target) = {} => ~resp.show_no_new_books_message

\* C15: for a target without favorites the call returns zero groups and the diagnostic
\* with three zero counts and the 'need at least one favorite' message, whatever the
\* other users have favorited.
C15_EmptyFavorites ==
    resp.kind = "recommendations" /\ (resp.target = NoUser \/ Favorites(resp.target) = {}) =>
        /\ Groups = <<>>
        /\ resp.diagnostic = [total_favorites |-> 0, similar_users_count |-> 0,
                              recommendations_count |-> 0, message |-> NEED_FAVORITE]

\* the page was computed for a user without favorites while two other users share a book
C15_Witness ==
    /\ Answered /\ Favorites(resp.target) = {}
    /\ \E n, m \in Users \ {resp.target} : n # m /\ Favorites(n) \cap Favorites(m) # {}
    /\ resp.diagnostic.message = NEED_FAVORITE

----------------------------------------------------------------------------
(* Properties of the digest scheduler, one pass at a time *)

\* the dispatches addressed to r
MailTo(m, r) == {d \in m : d.to = r}

LastSent(P, r) == P[r].last_recommendation_email_sent

\* a digest was delivered to r less than 7 days before now
InWindow(r) == last_dispatch[r] # NoTime /\ now - last_dispatch[r] < SEVEN_DAYS

\* C2: when passes run one after another and a digest was sent to r at time t, a pass
\* evaluating r at a time now with now - t < 7 days sends r nothing and leaves r's
\* last_recommendation_email_sent unchanged, whatever r's new books are.
C2_Throttle ==
    [][\A r \in Users :
          InWindow(r) => /\ MailTo(mail', r) = {}
                         /\ LastSent(prefs', r) = LastSent(prefs, r)]_vars

\* a pass has just evaluated r six days after r's digest, with new books waiting, and sent nothing
C2_Witness ==
    \E r \in evaluated :
        /\ InWindow(r) /\ now > last_dispatch[r]
        /\ AllNewBooks(favs, r, now) # {}
        /\ MailTo(mail, r) = {}

\* C3: a user whose receive_recommendations is false when a pass evaluates them is sent no
\* digest by that pass, whatever the overlap, the age of the last digest and the new books.
C3_UnsubscribeHonored ==
    [][\A r \in Users :
          ~prefs[r].receive_recommendation_emails => MailTo(mail', r) = {}]_vars

\* a pass has just evaluated an unsubscribed r that is past the throttle and has new books
C3_Witness ==
    \E r \in evaluated :
        /\ ~prefs[r].receive_recommendation_emails
        /\ LastSent(prefs, r) # NoTime /\ now - LastSent(prefs, r) >= SEVEN_DAYS
        /\ AllNewBooks(favs, r, now) # {}
        /\ MailTo(mail, r) = {}

\* C4: when the dispatcher fails to deliver the digest to r, r's
\* last_recommendation_email_sent keeps its value and r is not counted as sent.
C4_FailureKeepsTimestamp ==
    [][/\ \A d \in mail' : d.outcome # "sent" => LastSent(prefs', d.to) = LastSent(prefs, d.to)
       /\ mail' # {} => resp'.emails_sent = Cardinality({d \in mail' : d.outcome = "sent"})]_vars

\* C16: when actor X adds a favorite that recipient Y (email on file, active, subscribed,
\* last digest 8 days ago) also has, the pass run for X sends Y a digest that contains
\* that shared book and sets Y's last_recommendation_email_sent to now.
C16_SharedFavoriteDigest ==
    [][\A f \in favs' \ favs : \A y \in Users \ {f.user} :
          /\ f.book \in Favorites(y)
          /\ account[y].email /\ account[y].is_active
          /\ prefs[y].receive_recommendation_emails
          /\ LastSent(prefs, y) # NoTime /\ now - LastSent(prefs, y) = EightDays
          => /\ \E d \in MailTo(mail', y) : f.book \in d.new_books
             /\ LastSent(prefs', y) = now]_vars

\* n is a recent neighbor of r: n shares a favorite with r and added it in the last 7 days
RecentNeighbor(r, n) ==
    /\ n # r
    /\ \E g \in favs : /\ g.user = n /\ g.book \in Favorites(r)
                        /\ g.created_at >= now - SEVEN_DAYS

\* the favorites n added in the last 7 days
RecentFavorites(n) ==
    {g.book : g \in {h \in favs : h.user = n /\ h.created_at >= now - SEVEN_DAYS}}

\* the new books of r
NewBooks(r) ==
    UNION {RecentFavorites(n) : n \in {m \in Users : RecentNeighbor(r, m)}} \ Favorites(r)

\* C17: every dispatched digest carries a non-empty list of at most 10 books, each
\* favorited in the last 7 days by a recent neighbor of the recipient and not a favorite of
\* the recipient; a recipient whose set of new books is empty is sent no digest.
C17_DigestBooks ==
    /\ \A d \in mail :
          /\ d.new_books # {}
          /\ Cardinality(d.new_books) <= 10
          /\ d.new_books \subseteq NewBooks(d.to)
    /\ \A r \in Users : NewBooks(r) = {} => MailTo(mail, r) = {}

\* a digest with 10 of the 11 new books of its recipient
C17_Witness ==
    \E d \in mail :
        /\ Cardinality(d.new_books) = 10
        /\ Cardinality(NewBooks(d.to)) = 11

\* C18: the total count in a digest for r is the recommendations_count that
\* get_recommendations(r) returns on the same store, and additional_count is
\* max(0, total - 10).
C18_TotalCount ==
    \A d \in mail :
        /\ \A order \in Orders(Neighbors(d.to)) :
              d.total_recommendations_count =
                  Recommendations(favs, d.to, TRUE, order).diagnostic.recommendations_count
        /\ d.additional_count = IF d.total_recommendations_count > 10
                                THEN d.total_recommendations_count - 10 ELSE 0

\* a digest whose total exceeds both 10 and the number of new books of the recipient
C18_Witness ==
    \E d \in mail :
        /\ d.total_recommendations_count > Cardinality(NewBooks(d.to))
        /\ d.additional_count > 0
        /\ Cardinality(Neighbors(d.to)) = 2

\* r is due at the start of the step: subscribed and not within 7 days of its last digest
DueBefore(r) ==
    /\ prefs[r].receive_recommendation_emails
    /\ LastSent(prefs, r) = NoTime \/ now - LastSent(prefs, r) >= SEVEN_DAYS

\* C19: when dispatching to one recipient raises an error, the pass still returns
\* normally to its caller, and every other recipient candidate of the pass is evaluated
\* and, if eligible and due with new books, sent its digest.
C19_FailureIsolated ==
    [][\A f \in favs' \ favs :
          (\E d \in mail' : d.outcome = "raised") =>
              /\ resp'.kind = "redirect"
              /\ \A u \in Users \ {f.user} :
                    /\ (Favorites(u) \cap Favorites(f.user))' # {}
                    /\ account'[u].email /\ account'[u].is_active
                    => /\ u \in evaluated'
                       /\ DueBefore(u) /\ NewBooks(u)' # {} => MailTo(mail', u) # {}]_vars

\* a pass in which the dispatch to one recipient raised and another recipient got its digest
C19_Witness ==
    \E d, x \in mail :
        /\ d.outcome = "raised" /\ x.outcome = "sent"
        /\ d.to < x.to
        /\ {d.to, x.to} \subseteq evaluated
        /\ LastSent(prefs, d.to) = NoTime /\ LastSent(prefs, x.to) = now

----------------------------------------------------------------------------
(* Properties of interleaved requests *)

\* C5: when two digest passes interleave, at most one of them dispatches a digest to a
\* given recipient within a 7-day window: no digest is dispatched to a user to whom one
\* was delivered less than 7 days earlier.
C5_OneDispatchPerWindow ==
    [][\A d \in mail' : ~InWindow(d.to)]_vars

\* worker w completes an explicit resubscribe of u in this step
Resubscribes(u) ==
    \/ \E w \in Workers : worker[w].pc = "resubscribe" /\ worker[w].user = u /\ ResubscribeSave(w)
    \/ Resubscribe(u)

Unsubscribed(P, u) == ~P[u].receive_recommendation_emails /\ P[u].unsubscribed_at # NoTime

\* C6: once an unsubscribe has completed, the user stays UNSUBSCRIBED (flag false,
\* unsubscribed_at set) until an explicit resubscribe; no step of a digest pass restores
\* SUBSCRIBED.
C6_UnsubscribeSticks ==
    [][\A u \in Users :
          Unsubscribed(prefs, u) /\ ~Unsubscribed(prefs', u) => Resubscribes(u)]_vars

\* C28: in every state reached by unsubscribe requests, resubscribe commands and digest
\* passes, in any order and interleaving, from preferences created with their defaults, a
\* user's receive_recommendation_emails is true exactly when unsubscribed_at is unset.
C28_FlagMatchesUnsubscribedAt ==
    \A u \in Users :
        prefs[u].receive_recommendation_emails <=> prefs[u].unsubscribed_at = NoTime

\* u is unsubscribed while a pass is about to write back the row of u it read when u was
\* subscribed
C28_Witness ==
    \E u \in Users, w \in Workers :
        /\ Unsubscribed(prefs, u)
        /\ worker[w].pc = "save" /\ worker[w].user_a = u
        /\ worker[w].email_prefs.receive_recommendation_emails
        /\ worker[w].email_prefs.unsubscribed_at = NoTime

\* C29: a user's last_recommendation_email_sent never decreases and is never cleared once
\* set: no unsubscribe, resubscribe or digest pass, in any interleaving, writes back an
\* older or empty value.
C29_LastSentMonotone ==
    [][\A u \in Users :
          LastSent(prefs, u) # NoTime =>
              /\ LastSent(prefs', u) # NoTime
              /\ LastSent(prefs', u) >= LastSent(prefs, u)]_vars

----------------------------------------------------------------------------
(* Properties of the favorite table *)

\* C20: in every state reached by any interleaving of save-favorite, remove-favorite and
\* guest-merge requests there is at most one favorite row per (user, book) pair.
C20_OneFavoritePerPair ==
    \A f, g \in favs : f.user = g.user /\ f.book = g.book => f = g

\* two requests raced for the same pair: one has inserted its row with another
\* explanation, the other is about to insert, and a guest has been merged
C20_Witness ==
    /\ GuestMerged
    /\ \E w \in Workers :
          /\ worker[w].pc \in {"create", "merge_create"}
          /\ \E f \in favs : /\ f.user = worker[w].favorite.user
                              /\ f.book = worker[w].favorite.book
                              /\ f.explanation # worker[w].favorite.explanation

\* the login or the registration of `user` from the current session
Merges(user) ==
    \/ Login(user)
    \/ Unused # {} /\ user = FreshId /\ Register

\* the rows of u
RowsOf(F, u) == {f \in F : f.user = u}

\* C21: merge_favorites(guest, user) leaves the user with exactly its old favorites and
\* those of the guest, one record per book, and removes the guest and its favorites; a
\* second merge in the session, or a merge without a guest id or with the guest id of the
\* user itself, changes nothing.
C21_MergeGuestFavorites ==
    [][\A user \in Users, guest \in Users \cup {NoUser} :
          Merges(user) /\ guest = guest_user_id =>
              /\ guest_user_id' = NoUser
              /\ IF guest # NoUser /\ guest # user
                 THEN /\ Favorites(user)' = Favorites(user) \cup Favorites(guest)
                      /\ Cardinality(RowsOf(favs', user)) = Cardinality(Favorites(user)')
                      /\ RowsOf(favs, user) \subseteq favs'
                      /\ RowsOf(favs', guest) = {}
                      /\ account'[guest].status = "deleted"
                      /\ \A u \in Users \ {user, guest} : RowsOf(favs', u) = RowsOf(favs, u)
                 ELSE favs' = favs /\ \A u \in Users \ {user} : account'[u] = account[u]]_vars

\* a guest was merged into a user that had one of the guest's books with another
\* explanation, and a later login from the same session found nothing to merge
C21_Witness ==
    /\ GuestMerged
    /\ guest_user_id = NoUser
    /\ resp.kind = "redirect"
    /\ \E u \in Users :
          /\ Cardinality(RowsOf(favs, u)) = 3
          /\ \E f, g \in RowsOf(favs, u) :
                f.explanation # g.explanation /\ f.created_at # g.created_at

----------------------------------------------------------------------------
(* Properties of the recipients of a pass *)

\* C22: every user a pass run for an actor dispatches a digest to is another user than
\* the actor, shares a favorite with the actor at the time of the pass, is active and has
\* an email; the actor gets no digest from its own pass and a guest user never gets one.
C22_Recipients ==
    [][\A f \in favs' \ favs : \A d \in mail' :
          /\ d.to # f.user
          /\ (Favorites(d.to) \cap Favorites(f.user))' # {}
          /\ account'[d.to].is_active
          /\ account'[d.to].email
          /\ account'[d.to].status # "guest"]_vars

\* a pass that sent a digest to one neighbor of the actor, none to another neighbor who
\* has new books and no email, and none to the actor, who has new books too
C22_Witness ==
    \E a \in Users, d \in mail :
        /\ d.to # a /\ d.at = now
        /\ \E f \in favs : f.user = a /\ f.created_at = now
        /\ \E u \in Neighbors(a) \ {d.to} :
              /\ NewBooks(u) # {} /\ MailTo(mail, u) = {}
              /\ LastSent(prefs, u) = NoTime
              /\ ~account[u].email /\ account[u].is_active /\ account[u].status = "member"
        /\ NewBooks(a) # {} /\ MailTo(mail, a) = {}

\* the pass of the step handed a digest for u to the dispatcher and the call returned
Dispatched(m, u) == \E d \in m : d.to = u /\ d.outcome # "raised"

\* C23: after a pass at time now, the last_recommendation_email_sent of a user the pass
\* dispatched a digest to is now; for every other user (not a neighbor of the actor, no
\* email, inactive, unsubscribed, throttled, no new books) the pass leaves
\* last_recommendation_email_sent, receive_recommendation_emails and unsubscribed_at as
\* they were; the pass changes no favorite row.
C23_PassFrame ==
    [][\A f \in favs' \ favs :
          /\ \A u \in Users :
                IF Dispatched(mail', u)
                THEN LastSent(prefs', u) = now
                ELSE /\ LastSent(prefs', u) = LastSent(prefs, u)
                     /\ prefs'[u].receive_recommendation_emails =
                            prefs[u].receive_recommendation_emails
                     /\ prefs'[u].unsubscribed_at = prefs[u].unsubscribed_at
          /\ favs' = favs \cup {f}]_vars

\* a pass has just sent a digest to one user and skipped another candidate, who is
\* unsubscribed and has new books
C23_Witness ==
    \E d \in mail, u \in evaluated :
        /\ u # d.to /\ d.to \in evaluated
        /\ LastSent(prefs, d.to) = now
        /\ MailTo(mail, u) = {}
        /\ Unsubscribed(prefs, u) /\ LastSent(prefs, u) = NoTime
        /\ NewBooks(u) # {}

----------------------------------------------------------------------------
(* Properties of the seven-day window *)

\* C24: a recipient r with an email, active, subscribed, with no digest sent in the last
\* 7 days and with new books is sent a digest by every pass run for an actor who shares a
\* favorite with r, when the dispatcher succeeds, also when the actor is not one of r's
\* recent neighbors.
C24_AnyNeighborTriggers ==
    [][\A f \in favs' \ favs : \A r \in Users \ {f.user} :
          /\ account'[r].email /\ account'[r].is_active
          /\ DueBefore(r)
          /\ NewBooks(r)' # {}
          /\ (Favorites(r) \cap Favorites(f.user))' # {}
          => \E d \in MailTo(mail', r) : d.at = now /\ d.outcome = "sent"]_vars

\* a digest was sent to r by the pass of an actor a, who owns the only row created now
\* and whose shared favorites are older than 7 days: the new books come from another
\* neighbor
C24_Witness ==
    \E d \in mail, a \in Users :
        /\ a \in Neighbors(d.to)
        /\ \E f \in favs : f.user = a /\ f.created_at = now
        /\ \A g \in favs : g.created_at = now => g.user = a
        /\ ~RecentNeighbor(d.to, a)
        /\ d.at = now /\ d.new_books # {}

\* n is a neighbor of r whose favorites shared with r were all created more than 7 days ago
StaleNeighbor(r, n) ==
    /\ n \in Neighbors(r)
    /\ \A g \in favs : g.user = n /\ g.book \in Favorites(r) => now - g.created_at > SEVEN_DAYS

\* C25: a neighbor of r counts as recent only through a shared favorite created in the
\* last 7 days: every book of a digest for r is a recent favorite of a neighbor that is not
\* stale, and a recipient whose neighbors are all stale gets no digest, whatever other
\* favorites those neighbors added in the last 7 days.
C25_RecencyOfSharedFavorite ==
    \A r \in Users :
        /\ \A d \in MailTo(mail, r) : \A b \in d.new_books :
              \E n \in Neighbors(r) : ~StaleNeighbor(r, n) /\ b \in RecentFavorites(n)
        /\ (\A n \in Neighbors(r) : StaleNeighbor(r, n)) => MailTo(mail, r) = {}

\* a digest for r that leaves out a book r does not have and that a stale neighbor of r
\* added in the last 7 days
C25_Witness ==
    \E d \in mail, n \in Users :
        /\ d.at = now
        /\ StaleNeighbor(d.to, n)
        /\ (RecentFavorites(n) \ Favorites(d.to)) \ d.new_books # {}
        /\ Cardinality(NewBooks(d.to)) <= 10

\* the row g was created exactly 7 days before now
OnBoundary(g) == now - g.created_at = SEVEN_DAYS

\* the books r does not have that a neighbor added exactly 7 days ago, the neighbor
\* having added a favorite it shares with r exactly 7 days ago too
BoundaryBooks(r) ==
    {g.book : g \in {h \in favs :
        /\ h.user # r /\ OnBoundary(h)
        /\ \E k \in favs : k.user = h.user /\ OnBoundary(k) /\ k.book \in Favorites(r)}}
    \ Favorites(r)

\* C26: the 7-day boundaries are inclusive: a subscribed candidate with new books whose
\* last digest was sent exactly 7 days before now, or was never sent, reaches the
\* dispatch, and a favorite created exactly 7 days before now counts as added in the last
\* 7 days, so it is among the books of the digest.
C26_InclusiveBoundaries ==
    [][\A f \in favs' \ favs :
          /\ \A r \in Users \ {f.user} :
                /\ account'[r].email /\ account'[r].is_active
                /\ (Favorites(r) \cap Favorites(f.user))' # {}
                /\ prefs[r].receive_recommendation_emails
                /\ LastSent(prefs, r) = NoTime \/ now - LastSent(prefs, r) = SEVEN_DAYS
                /\ NewBooks(r)' # {}
                => MailTo(mail', r) # {}
          /\ \A d \in mail' :
                Cardinality(NewBooks(d.to)') <= EMAIL_BOOK_LIMIT
                => BoundaryBooks(d.to)' \subseteq d.new_books]_vars

\* a dispatch to r was attempted exactly 7 days after r's last digest and raised, so the
\* timestamp still shows the day of the last digest; the digest lists a book whose only
\* rows are exactly 7 days old
C26_Witness ==
    \E d \in mail :
        /\ d.at = now /\ d.outcome = "raised"
        /\ LastSent(prefs, d.to) # NoTime /\ now - LastSent(prefs, d.to) = SEVEN_DAYS
        /\ \E b \in d.new_books \cap BoundaryBooks(d.to) :
              \A g \in favs : g.book = b => OnBoundary(g)

----------------------------------------------------------------------------
(* Properties of saving a favorite again *)

\* the user a save request of `who` is made for
Saver(who) == IF who # NoUser THEN who ELSE SessionGuest

\* C27: saving a favorite for a (user, book) pair that exists creates no row and leaves
\* created_at of every row as it is; only the explanation of that pair's row changes, and
\* only when the submitted explanation is not empty; no digest pass runs and the new books
\* of every user stay what they were.
C27_SaveExistingPair ==
    [][\A who \in Users \cup {NoUser}, b \in Books, e \in Explanations, user \in Users :
          /\ user = Saver(who)
          /\ b \in Favorites(user)
          /\ SaveFavorite(who, {b}, [x \in {b} |-> e], {"sent"})
          => /\ Cardinality(favs') = Cardinality(favs)
             /\ \A f \in favs : \E g \in favs' :
                   /\ g.user = f.user /\ g.book = f.book /\ g.created_at = f.created_at
                   /\ g.explanation # f.explanation =>
                         f.user = user /\ f.book = b /\ e # "" /\ g.explanation = e
             /\ e = "" => favs' = favs
             /\ e # "" => \E g \in favs' : g.user = user /\ g.book = b /\ g.explanation = e
             /\ mail' = {} /\ evaluated' = {}
             /\ \A r \in Users : NewBooks(r)' = NewBooks(r)]_vars

\* a save that created no row has just been answered, 8 days after the row of a pair was
\* created; the row carries an explanation and a neighbor of its owner has no new books
C27_Witness ==
    /\ resp.kind = "redirect" /\ resp.diagnostic.message = NO_VALID_BOOKS
    /\ \E f \in favs, r \in Users :
          /\ now - f.created_at = EightDays
          /\ f.explanation # ""
          /\ r \in Neighbors(f.user) /\ f.book \in Favorites(r)
          /\ \A g \in favs : g.user = f.user => g = f
          /\ NewBooks(r) = {}
          /\ account[r].email /\ LastSent(prefs, r) = NoTime

----------------------------------------------------------------------------
(* Properties of the order in which similar users are visited *)

\* the pairs <<book, overlap_count>> of the output r
BookOverlaps(r) ==
    UNION {{<<r.grouped_recommendations[i].recommended_books[j].book,
              r.grouped_recommendations[i].overlap_count>> :
               j \in 1..Len(r.grouped_recommendations[i].recommended_books)} :
           i \in 1..Len(r.grouped_recommendations)}

\* the users the view visits for the page in resp
VisitedFor(r) ==
    SimilarUsers(favs, IF r.target = NoUser THEN {} ELSE FavoriteBookIds(favs, r.target),
                 IF r.authenticated THEN {r.target} ELSE {})

\* C30: on one snapshot of the favorite store the order in which the similar users are
\* visited changes at most the neighbor a book is attributed to: the recommended books,
\* the overlap_count attached to each of them, recommendations_count and
\* similar_users_count are the same for every order.
C30_OrderChangesAttributionOnly ==
    resp.kind = "recommendations" =>
        \A order \in Orders(VisitedFor(resp)) :
            /\ BookOverlaps(Recommendations(favs, resp.target, resp.authenticated, order))
                   = BookOverlaps(resp)
            /\ Recommendations(favs, resp.target, resp.authenticated, order).diagnostic
                   = resp.diagnostic

\* the pairs <<book, similar_user>> of the output r
Attribution(r) ==
    UNION {{<<r.grouped_recommendations[i].recommended_books[j].book,
              r.grouped_recommendations[i].similar_user>> :
               j \in 1..Len(r.grouped_recommendations[i].recommended_books)} :
           i \in 1..Len(r.grouped_recommendations)}

\* a page with two recommended books, one of them attributed to one of two neighbors of
\* equal overlap, which another visiting order attributes to the other neighbor
C30_Witness ==
    /\ Answered
    /\ Cardinality(Recommended) >= 2
    /\ \E order \in Orders(VisitedFor(resp)) :
          Attribution(Recommendations(favs, resp.target, resp.authenticated, order))
              # Attribution(resp)
    /\ \E n, m \in Neighbors(resp.target) :
          /\ n # m /\ Overlap(resp.target, n) = Overlap(resp.target, m)
          /\ (Favorites(n) \cap Favorites(m)) \ Favorites(resp.target) # {}

====
